---------------------------- MODULE Spec2Model ----------------------------
(***************************************************************************)
(* Model of the area-selection crop region: the Core interaction handlers  *)
(* (core.js), the AreaSelection wrapper (area-selection.js) and the Box    *)
(* rectangle they drive.                                                   *)
(*                                                                         *)
(* Coordinates are JavaScript numbers in the source.  They are modelled as *)
(* exact rationals <<n, d>> (d > 0, lowest terms), so that ratios, halves  *)
(* and scale factors are computed as the code computes them, without the   *)
(* floating-point rounding error.                                          *)
(***************************************************************************)
EXTENDS Integers, Sequences, FiniteSets, TLC

(***************************************************************************)
(* Bounds of the model.                                                    *)
(***************************************************************************)
ContainerWidth == 3      \* selectionEl.offsetWidth, in pixels
ContainerHeight == 2     \* selectionEl.offsetHeight, in pixels
MaxGestures == 2         \* pointer gestures per behaviour
MaxMoves == 2            \* pointer-move events per behaviour
MaxPending == 2          \* animation-frame callbacks waiting for a frame
MaxResets == 1           \* reset() calls per behaviour
MaxCalls == 2            \* other calls of the public interface per behaviour

(***************************************************************************)
(* Exact rational arithmetic.                                              *)
(***************************************************************************)
RECURSIVE GCD(_, _)
GCD(a, b) == IF b = 0 THEN a ELSE GCD(b, a % b)

Abs(n) == IF n < 0 THEN -n ELSE n

\* n / d with the common factor g taken out and the sign in the numerator.
Reduced(n, d, g) ==
  IF d < 0 THEN <<(-n) \div g, (-d) \div g>> ELSE <<n \div g, d \div g>>

Norm(n, d) == Reduced(n, d, GCD(Abs(n), Abs(d)))

R(n) == <<n, 1>>
Half == <<1, 2>>
Zero == <<0, 1>>
One == <<1, 1>>

\* Where a denominator is large, common factors are taken out before the
\* products are formed, to keep the intermediate integers small.
Large(a, b) == a[2] > 1000 \/ b[2] > 1000

Common(a, b) ==
  IF a[2] = b[2] THEN a[2] ELSE IF Large(a, b) THEN GCD(a[2], b[2]) ELSE 1

Sum(a, b, g) ==
  Norm(a[1] * (b[2] \div g) + b[1] * (a[2] \div g), (a[2] \div g) * b[2])

Product(a, b, g1, g2) ==
  Norm((a[1] \div g1) * (b[1] \div g2), (a[2] \div g2) * (b[2] \div g1))

Less(a, b, g) == a[1] * (b[2] \div g) < b[1] * (a[2] \div g)

RAdd(a, b) == Sum(a, b, Common(a, b))
RSub(a, b) == RAdd(a, <<-b[1], b[2]>>)
RMul(a, b) ==
  Product(a, b, IF Large(a, b) THEN GCD(Abs(a[1]), b[2]) ELSE 1,
                IF Large(a, b) THEN GCD(Abs(b[1]), a[2]) ELSE 1)
RDiv(a, b) ==
  IF b[1] = 0 THEN Norm(a[1] * b[2], 0)
  ELSE RMul(a, IF b[1] < 0 THEN <<-b[2], -b[1]>> ELSE <<b[2], b[1]>>)
RLt(a, b) == Less(a, b, Common(a, b))
RLe(a, b) == ~Less(b, a, Common(a, b))
RAbs(a) == <<Abs(a[1]), a[2]>>
RMin(a, b) == IF RLe(a, b) THEN a ELSE b

\* Math.round: the nearest integer, halves rounded up.
MathRound(a) == (2 * a[1] + a[2]) \div (2 * a[2])

(***************************************************************************)
(* null / undefined: the empty tuple.  An optional value is <<>> or a      *)
(* rational; an optional record is a sequence of length 0 or 1.            *)
(***************************************************************************)
NULL == <<>>

(***************************************************************************)
(* Box (box.js): a rectangle of two corners.                               *)
(***************************************************************************)
Box(x1, y1, x2, y2) == [x1 |-> x1, y1 |-> y1, x2 |-> x2, y2 |-> y2]

width(b) == RAbs(RSub(b.x2, b.x1))
height(b) == RAbs(RSub(b.y2, b.y1))

getAbsolutePoint(b, p) ==
  << RAdd(b.x1, RMul(p[1], RSub(b.x2, b.x1))),
     RAdd(b.y1, RMul(p[2], RSub(b.y2, b.y1))) >>

\* move(x, y): place the first corner at (x, y), keeping the size; a null
\* coordinate leaves that axis where it is.
Placed(b, nx, ny) == Box(nx, ny, RAdd(nx, width(b)), RAdd(ny, height(b)))

move(b, x, y) ==
  Placed(b, IF x = NULL THEN b.x1 ELSE x, IF y = NULL THEN b.y1 ELSE y)

\* resize(width, height, origin): the origin point keeps its absolute place.
Sized(nx1, ny1, newWidth, newHeight) ==
  Box(nx1, ny1, RAdd(nx1, newWidth), RAdd(ny1, newHeight))

ResizedFrom(from, newWidth, newHeight, origin) ==
  Sized(RSub(from[1], RMul(newWidth, origin[1])),
        RSub(from[2], RMul(newHeight, origin[2])), newWidth, newHeight)

resize(b, newWidth, newHeight, origin) ==
  ResizedFrom(getAbsolutePoint(b, origin), newWidth, newHeight, origin)

scale(b, factor, origin) ==
  resize(b, RMul(width(b), factor), RMul(height(b), factor), origin)


\* constrainToRatio(ratio, origin, grow): grow names the dimension that is
\* derived from the other one; a null ratio leaves the box alone.
constrainToRatio(b, ratio, origin, grow) ==
  IF ratio = NULL THEN b
  ELSE IF grow = "width"
       THEN resize(b, RDiv(height(b), ratio), height(b), origin)
       ELSE resize(b, width(b), RMul(width(b), ratio), origin)

\* Clamp v into [lo, hi]; a null bound is no bound; the maximum is applied
\* last, so it wins over an incompatible minimum.
Clamp(v, lo, hi) ==
  LET v1 == IF lo # NULL /\ RLt(v, lo) THEN lo ELSE v
  IN  IF hi # NULL /\ RLt(hi, v1) THEN hi ELSE v1

\* constrainToSize(maxWidth, maxHeight, minWidth, minHeight, origin, ratio):
\* clamp the width, re-derive the height from a clamped width when a ratio is
\* set, clamp the height, re-derive the width from a clamped height and check
\* it against its own bound again.
\* The width: re-derived from a height that was clamped, and clamped again.
SizedWidth(w1, h1, h2, maxWidth, minWidth, ratio) ==
  IF ratio # NULL /\ h2 # h1
  THEN Clamp(RDiv(h2, ratio), minWidth, maxWidth)
  ELSE w1

\* The height: clamped.
SizedHeight(b, w1, h1, maxWidth, maxHeight, minWidth, minHeight, origin, ratio) ==
  resize(b, SizedWidth(w1, h1, Clamp(h1, minHeight, maxHeight),
                       maxWidth, minWidth, ratio),
         Clamp(h1, minHeight, maxHeight), origin)

\* The height: re-derived from a width that was clamped.
SizedFrom(b, w0, w1, maxWidth, maxHeight, minWidth, minHeight, origin, ratio) ==
  SizedHeight(b, w1,
              IF ratio # NULL /\ w1 # w0 THEN RMul(w1, ratio) ELSE height(b),
              maxWidth, maxHeight, minWidth, minHeight, origin, ratio)

constrainToSize(b, maxWidth, maxHeight, minWidth, minHeight, origin, ratio) ==
  SizedFrom(b, width(b), Clamp(width(b), minWidth, maxWidth),
            maxWidth, maxHeight, minWidth, minHeight, origin, ratio)

\* The largest extent a box may have along one axis of length limit when the
\* point at ratio r of that extent is held at coordinate at.
MaxExtent(at, r, limit) ==
  LET before == IF RLt(Zero, r) THEN RDiv(at, r) ELSE NULL
      after  == IF RLt(r, One) THEN RDiv(RSub(limit, at), RSub(One, r)) ELSE NULL
  IN  IF before = NULL THEN after
      ELSE IF after = NULL THEN before
      ELSE RMin(before, after)

\* constrainToBoundary(boundaryWidth, boundaryHeight, origin): a box that
\* reaches over the boundary is scaled down uniformly about the origin, by
\* the largest factor that fits.
\* A box higher than maxHeight is scaled down to it.
FitHeight(b, maxHeight, origin) ==
  IF RLt(maxHeight, height(b))
  THEN scale(b, RDiv(maxHeight, height(b)), origin) ELSE b

\* A box wider than maxWidth is scaled down to it, then its height is seen to.
FitWidth(b, maxWidth, maxHeight, origin) ==
  FitHeight(IF RLt(maxWidth, width(b))
            THEN scale(b, RDiv(maxWidth, width(b)), origin) ELSE b,
            maxHeight, origin)

FitAbout(b, at, boundaryWidth, boundaryHeight, origin) ==
  FitWidth(b, MaxExtent(at[1], origin[1], boundaryWidth),
           MaxExtent(at[2], origin[2], boundaryHeight), origin)

constrainToBoundary(b, boundaryWidth, boundaryHeight, origin) ==
  FitAbout(b, getAbsolutePoint(b, origin), boundaryWidth, boundaryHeight,
           origin)

(***************************************************************************)
(* Handles (core.js): position within the region and the sides            *)
(* [TOP, RIGHT, BOTTOM, LEFT] each handle moves.                           *)
(***************************************************************************)
HANDLES == <<
  [position |-> <<Zero, Zero>>, constraints |-> <<1, 0, 0, 1>>, direction |-> "nw"],
  [position |-> <<Half, Zero>>, constraints |-> <<1, 0, 0, 0>>, direction |-> "n"],
  [position |-> <<One,  Zero>>, constraints |-> <<1, 1, 0, 0>>, direction |-> "ne"],
  [position |-> <<One,  Half>>, constraints |-> <<0, 1, 0, 0>>, direction |-> "e"],
  [position |-> <<One,  One>>,  constraints |-> <<0, 1, 1, 0>>, direction |-> "se"],
  [position |-> <<Half, One>>,  constraints |-> <<0, 0, 1, 0>>, direction |-> "s"],
  [position |-> <<Zero, One>>,  constraints |-> <<0, 0, 1, 1>>, direction |-> "sw"],
  [position |-> <<Zero, Half>>, constraints |-> <<0, 0, 0, 1>>, direction |-> "w"] >>

SOUTHEAST_HANDLE_IDX == 4 + 1    \* index 4 of the zero-based array

TOP_MOVABLE(h) == HANDLES[h].constraints[1] = 1
RIGHT_MOVABLE(h) == HANDLES[h].constraints[2] = 1
BOTTOM_MOVABLE(h) == HANDLES[h].constraints[3] = 1
LEFT_MOVABLE(h) == HANDLES[h].constraints[4] = 1
MULTI_AXIS(h) ==
  (LEFT_MOVABLE(h) \/ RIGHT_MOVABLE(h)) /\ (TOP_MOVABLE(h) \/ BOTTOM_MOVABLE(h))


(***************************************************************************)
(* State.                                                                  *)
(***************************************************************************)
VARIABLES
  options,       \* this.options, sizes already converted to pixels
  box,           \* this.box, the live rectangle
  activeHandle,  \* this.activeHandle: <<>> (undefined) or <<record>>
  currentMove,   \* this.currentMove: <<>> (undefined) or <<record>>
  tmpBox,        \* tmpBox of attachOverlayEvents: <<>> (null) or <<box>>
  listeners,     \* whose mousemove/mouseup listeners are on the document
  pending,       \* requestAnimationFrame callbacks not yet run, in order
  painted,       \* regionEl.style as last painted: <<>> or <<snapshot>>
  emitted,       \* callbacks invoked since the last pointer-down, in order
  delivered,     \* the value handed to the callback invoked last: <<>> or <<it>>
  returned,      \* how the last call of the public interface came back
  env,           \* what the environment may still do in this behaviour
  hist           \* history of the gesture, read by the properties only

vars == <<options, box, activeHandle, currentMove, tmpBox, listeners,
          pending, painted, emitted, delivered, returned, env, hist>>

\* The container's bounding rectangle: its client position and its size.
ContainerLeft == 1
ContainerTop == 1
containerWidth == R(ContainerWidth)
containerHeight == R(ContainerHeight)

\* Pointer positions of mouse events, in client coordinates: every pixel of
\* the container and one pixel outside it on each side.
ClientXs == {ContainerLeft + i : i \in -1 .. ContainerWidth + 1}
ClientYs == {ContainerTop + i : i \in -1 .. ContainerHeight + 1}

\* A sparser set: outside on one side, inside, and on the far boundary.
FewClientXs == {ContainerLeft - 1, ContainerLeft + 1, ContainerLeft + ContainerWidth}
FewClientYs == {ContainerTop - 1, ContainerTop + 1, ContainerTop + ContainerHeight}

(***************************************************************************)
(* Core.initializeBox                                                      *)
(***************************************************************************)
\* A size of which neither dimension is set.
NoSize == [width |-> NULL, height |-> NULL]

\* A null used as a number counts as 0.
ToNumber(v) == IF v = NULL THEN Zero ELSE v

\* The box moved to the centre of the container.
Centred(b) ==
  move(b, RSub(RDiv(containerWidth, R(2)), RDiv(width(b), R(2))),
          RSub(RDiv(containerHeight, R(2)), RDiv(height(b), R(2))))

initializeBox(opts) ==
  LET b0 == Box(Zero, Zero, ToNumber(opts.startSize.width),
                ToNumber(opts.startSize.height))
      b1 == constrainToRatio(b0, opts.aspectRatio, <<Half, Half>>, "height")
      b2 == constrainToSize(b1, opts.maxSize.width, opts.maxSize.height,
                            opts.minSize.width, opts.minSize.height,
                            <<Half, Half>>, opts.aspectRatio)
  IN  Centred(constrainToBoundary(b2, containerWidth, containerHeight,
                                  <<Half, Half>>))

(***************************************************************************)
(* Core.redraw: the rounded values are captured now and painted by a       *)
(* callback handed to requestAnimationFrame.                               *)
(***************************************************************************)
Snapshot(b) ==
  [x1 |-> MathRound(b.x1), y1 |-> MathRound(b.y1),
   width |-> MathRound(width(b)), height |-> MathRound(height(b))]

redraw(queue, b) == Append(queue, Snapshot(b))

\* Invoking a callback of the options, when one is configured.
Emit(log, kind) ==
  IF options[kind] THEN Append(log, kind) ELSE log


(***************************************************************************)
(* Core.getValue                                                           *)
(***************************************************************************)
\* The target element: its natural size is twice its rendered size, and its
\* rendered size is the size of the container that wraps it.
naturalWidth == R(2 * ContainerWidth)
naturalHeight == R(2 * ContainerHeight)
elementWidth == containerWidth
elementHeight == containerHeight

\* round(value, decimals): Math.round of the value shifted by the decimals,
\* shifted back.
\* Not a number.
NaN == <<0, 0>>

\* Whether the string of a number is in exponent notation: it is for a
\* number other than 0 whose magnitude is below 1e-6 (and from 1e21 on,
\* which no coordinate of the model reaches).
Exponential(value) == value # Zero /\ RLt(RAbs(value), <<1, 10 ^ 6>>)

\* round(value, decimals): Number(Math.round(value + 'e' + decimals) + 'e-'
\* + decimals).  The string value + 'e' + decimals is the number shifted by
\* decimals places when value is written in plain notation; written in
\* exponent notation it has two exponents and is not a number.
round(value, decimals) ==
  IF Exponential(value) THEN NaN
  ELSE Norm(MathRound(RMul(value, R(10 ^ decimals))), 10 ^ decimals)

Value(x, y, w, h) == [x |-> x, y |-> y, width |-> w, height |-> h]

\* getValue(mode) of a box in a target element of a rendered size; the mode
\* is <<>> when left out; an unknown mode yields undefined, <<>>.
ValueOf(b, mode, elWidth, elHeight) ==
  LET m == IF mode = NULL THEN options.returnMode ELSE mode[1]
      factorX == RDiv(naturalWidth, elWidth)
      factorY == RDiv(naturalHeight, elHeight)
  IN  IF m = "real"
      THEN << Value(R(MathRound(RMul(b.x1, factorX))),
                    R(MathRound(RMul(b.y1, factorY))),
                    R(MathRound(RMul(width(b), factorX))),
                    R(MathRound(RMul(height(b), factorY)))) >>
      ELSE IF m = "ratio"
      THEN << Value(round(RDiv(b.x1, elWidth), 3),
                    round(RDiv(b.y1, elHeight), 3),
                    round(RDiv(width(b), elWidth), 3),
                    round(RDiv(height(b), elHeight), 3)) >>
      ELSE IF m = "raw"
      THEN << Value(R(MathRound(b.x1)), R(MathRound(b.y1)),
                    R(MathRound(width(b))), R(MathRound(height(b)))) >>
      ELSE <<>>

getValue(mode) == ValueOf(box, mode, elementWidth, elementHeight)

\* The value handed to a callback of the options, when one is configured:
\* getValue() of the box at that moment.
Deliver(kind, b) ==
  IF options[kind]
  THEN << [kind |-> kind,
           value |-> ValueOf(b, NULL, elementWidth, elementHeight)] >>
  ELSE delivered

(***************************************************************************)
(* Core.onHandleMoveStart                                                  *)
(***************************************************************************)
\* Mutant of originPointOf: the handle's own position.
originPointOf_OwnPosition(h) == HANDLES[h].position

\* The origin point: the side or corner opposite the handle.
originPointOf(h) ==
  << RSub(One, HANDLES[h].position[1]), RSub(One, HANDLES[h].position[2]) >>

onHandleMoveStart(h) ==
  LET originPoint == originPointOf(h)
      at == getAbsolutePoint(box', originPoint)
  IN  /\ activeHandle' = << [handle |-> h, originPoint |-> originPoint,
                             originX |-> at[1], originY |-> at[2]] >>
      /\ emitted' = Emit(<<>>, "onSelectStart")
      /\ delivered' = Deliver("onSelectStart", box')
      /\ UNCHANGED <<options, currentMove, pending, painted>>

(***************************************************************************)
(* Core.onHandleMoveMoving                                                 *)
(***************************************************************************)
\* The mouse relative to the container, kept within its boundaries.
ClampMouse(m, size) ==
  IF RLt(m, Zero) THEN Zero ELSE IF RLt(size, m) THEN size ELSE m

\* Mutant of MovedSides: every side the handle does not move sits on the
\* origin.
MovedSides_AllOnOrigin(h, mouseX, mouseY, originX, originY, b) ==
  Box(IF LEFT_MOVABLE(h) THEN mouseX ELSE originX,
      IF TOP_MOVABLE(h) THEN mouseY ELSE originY,
      IF RIGHT_MOVABLE(h) THEN mouseX ELSE originX,
      IF BOTTOM_MOVABLE(h) THEN mouseY ELSE originY)

\* The sides the handle moves follow the mouse; the other side of a moved
\* axis sits on the origin; an axis the handle does not move is kept.
MovedSides(h, mouseX, mouseY, originX, originY, b) ==
  LET x1 == IF LEFT_MOVABLE(h) \/ RIGHT_MOVABLE(h) THEN originX ELSE b.x1
      x2 == IF LEFT_MOVABLE(h) \/ RIGHT_MOVABLE(h) THEN originX ELSE b.x2
      y1 == IF TOP_MOVABLE(h) \/ BOTTOM_MOVABLE(h) THEN originY ELSE b.y1
      y2 == IF TOP_MOVABLE(h) \/ BOTTOM_MOVABLE(h) THEN originY ELSE b.y2
  IN  Box(IF LEFT_MOVABLE(h) THEN mouseX ELSE x1,
          IF TOP_MOVABLE(h) THEN mouseY ELSE y1,
          IF RIGHT_MOVABLE(h) THEN mouseX ELSE x2,
          IF BOTTOM_MOVABLE(h) THEN mouseY ELSE y2)

\* Whether the user dragged past the origin point.
isFlippedX(h, mouseX, originX) ==
  /\ LEFT_MOVABLE(h) \/ RIGHT_MOVABLE(h)
  /\ IF LEFT_MOVABLE(h) THEN RLt(originX, mouseX) ELSE RLt(mouseX, originX)

isFlippedY(h, mouseY, originY) ==
  /\ TOP_MOVABLE(h) \/ BOTTOM_MOVABLE(h)
  /\ IF TOP_MOVABLE(h) THEN RLt(originY, mouseY) ELSE RLt(mouseY, originY)

\* A flipped axis has its coordinates swapped and its origin ratio mirrored.
FlipBox(b, flipX, flipY) ==
  Box(IF flipX THEN b.x2 ELSE b.x1, IF flipY THEN b.y2 ELSE b.y1,
      IF flipX THEN b.x1 ELSE b.x2, IF flipY THEN b.y1 ELSE b.y2)

\* Mutant of FlipOrigin: the origin point is not mirrored.
FlipOrigin_NotMirrored(origin, flipX, flipY) == origin

FlipOrigin(origin, flipX, flipY) ==
  << IF flipX THEN RSub(One, origin[1]) ELSE origin[1],
     IF flipY THEN RSub(One, origin[2]) ELSE origin[2] >>

\* Mutant of ratioMode: the dimension to derive is chosen the other way
\* round.
ratioMode_Inverted(h, mouseY, b, ratio) ==
  LET isVerticalMovement ==
        IF MULTI_AXIS(h)
        THEN \/ RLt(RAdd(b.y1, RMul(ratio, width(b))), mouseY)
             \/ RLt(mouseY, RSub(b.y2, RMul(ratio, width(b))))
        ELSE TOP_MOVABLE(h) \/ BOTTOM_MOVABLE(h)
  IN  IF isVerticalMovement THEN "height" ELSE "width"

\* Which dimension the aspect ratio derives from the other.
ratioMode(h, mouseY, b, ratio) ==
  LET isVerticalMovement ==
        IF MULTI_AXIS(h)
        THEN \/ RLt(RAdd(b.y1, RMul(ratio, width(b))), mouseY)
             \/ RLt(mouseY, RSub(b.y2, RMul(ratio, width(b))))
        ELSE TOP_MOVABLE(h) \/ BOTTOM_MOVABLE(h)
  IN  IF isVerticalMovement THEN "width" ELSE "height"

\* Mutants of ConstrainBox: the boundary constrained before the size, the
\* size not constrained, the aspect ratio not maintained.
ConstrainBox_BoundaryFirst(b, origin, h, mouseY, opts) ==
  LET b1 == IF opts.aspectRatio # NULL
            THEN constrainToRatio(b, opts.aspectRatio, origin,
                                  ratioMode(h, mouseY, b, opts.aspectRatio))
            ELSE b
      b2 == constrainToBoundary(b1, containerWidth, containerHeight, origin)
  IN  constrainToSize(b2, opts.maxSize.width, opts.maxSize.height,
                      opts.minSize.width, opts.minSize.height,
                      origin, opts.aspectRatio)

ConstrainBox_NoSize(b, origin, h, mouseY, opts) ==
  LET b1 == IF opts.aspectRatio # NULL
            THEN constrainToRatio(b, opts.aspectRatio, origin,
                                  ratioMode(h, mouseY, b, opts.aspectRatio))
            ELSE b
  IN  constrainToBoundary(b1, containerWidth, containerHeight, origin)

ConstrainBox_NoRatio(b, origin, h, mouseY, opts) ==
  LET b2 == constrainToSize(b, opts.maxSize.width, opts.maxSize.height,
                            opts.minSize.width, opts.minSize.height,
                            origin, NULL)
  IN  constrainToBoundary(b2, containerWidth, containerHeight, origin)

\* Maintain the aspect ratio, then the minimum/maximum size, then constrain
\* to the boundary, all about the same origin.
ConstrainBox(b, origin, h, mouseY, opts) ==
  LET b1 == IF opts.aspectRatio # NULL
            THEN constrainToRatio(b, opts.aspectRatio, origin,
                                  ratioMode(h, mouseY, b, opts.aspectRatio))
            ELSE b
      b2 == constrainToSize(b1, opts.maxSize.width, opts.maxSize.height,
                            opts.minSize.width, opts.minSize.height,
                            origin, opts.aspectRatio)
  IN  constrainToBoundary(b2, containerWidth, containerHeight, origin)

\* The origin one handlemove event scales from: the origin point of the
\* active handle, mirrored on every axis the mouse was dragged past it.
StepOrigin(clientX, clientY) ==
  LET ah == activeHandle[1]
      mouseX == ClampMouse(R(clientX - ContainerLeft), containerWidth)
      mouseY == ClampMouse(R(clientY - ContainerTop), containerHeight)
  IN  FlipOrigin(ah.originPoint, isFlippedX(ah.handle, mouseX, ah.originX),
                 isFlippedY(ah.handle, mouseY, ah.originY))

\* Mutant of HandleStep: the sides are moved and the box is taken as it is,
\* with no swap of the coordinates and nothing constrained.
HandleStep_SidesOnly(clientX, clientY) ==
  MovedSides(activeHandle[1].handle,
             ClampMouse(R(clientX - ContainerLeft), containerWidth),
             ClampMouse(R(clientY - ContainerTop), containerHeight),
             activeHandle[1].originX, activeHandle[1].originY, box)

\* The box one handlemove event computes.
HandleStep(clientX, clientY) ==
  LET ah == activeHandle[1]
      h == ah.handle
      mouseX == ClampMouse(R(clientX - ContainerLeft), containerWidth)
      mouseY == ClampMouse(R(clientY - ContainerTop), containerHeight)
      b == FlipBox(MovedSides(h, mouseX, mouseY, ah.originX, ah.originY, box),
                   isFlippedX(h, mouseX, ah.originX),
                   isFlippedY(h, mouseY, ah.originY))
  IN  ConstrainBox(b, StepOrigin(clientX, clientY), h, mouseY, options)

onHandleMoveMoving(clientX, clientY) ==
  /\ box' = HandleStep(clientX, clientY)
  /\ pending' = redraw(pending, box')
  /\ emitted' = Emit(emitted, "onSelectMove")
  /\ delivered' = Deliver("onSelectMove", box')
  /\ UNCHANGED <<options, activeHandle, currentMove, painted>>

(***************************************************************************)
(* Core.onHandleMoveEnd                                                    *)
(***************************************************************************)
\* Mutant of onHandleMoveEnd: the session is discarded at its end.
onHandleMoveEnd_Discarding ==
  /\ emitted' = Emit(emitted, "onSelectEnd")
  /\ delivered' = Deliver("onSelectEnd", box)
  /\ activeHandle' = <<>>
  /\ UNCHANGED <<options, box, currentMove, pending, painted>>

onHandleMoveEnd ==
  /\ emitted' = Emit(emitted, "onSelectEnd")
  /\ delivered' = Deliver("onSelectEnd", box)
  /\ UNCHANGED <<options, box, activeHandle, currentMove, pending, painted>>

(***************************************************************************)
(* Core.onRegionMoveStart, onRegionMoveMoving, onRegionMoveEnd             *)
(***************************************************************************)
onRegionMoveStart(clientX, clientY) ==
  LET mouseX == R(clientX - ContainerLeft)
      mouseY == R(clientY - ContainerTop)
  IN  /\ currentMove' = << [offsetX |-> RSub(mouseX, box.x1),
                            offsetY |-> RSub(mouseY, box.y1)] >>
      /\ emitted' = Emit(<<>>, "onSelectStart")
      /\ delivered' = Deliver("onSelectStart", box)
      /\ UNCHANGED <<options, box, activeHandle, pending, painted>>

\* Mutant of RegionStep: a side that left the container is cut off at the
\* boundary instead of the box being moved back.
RegionStep_Cropping(clientX, clientY) ==
  LET mouseX == R(clientX - ContainerLeft)
      mouseY == R(clientY - ContainerTop)
      b0 == move(box, RSub(mouseX, currentMove[1].offsetX),
                      RSub(mouseY, currentMove[1].offsetY))
      b1 == IF RLt(b0.x1, Zero) THEN [b0 EXCEPT !.x1 = Zero] ELSE b0
      b2 == IF RLt(containerWidth, b1.x2)
            THEN [b1 EXCEPT !.x2 = containerWidth] ELSE b1
      b3 == IF RLt(b2.y1, Zero) THEN [b2 EXCEPT !.y1 = Zero] ELSE b2
  IN  IF RLt(containerHeight, b3.y2)
      THEN [b3 EXCEPT !.y2 = containerHeight] ELSE b3

\* Mutant of RegionStep: the box follows the mouse and is not put back.
RegionStep_Unbounded(clientX, clientY) ==
  move(box, RSub(R(clientX - ContainerLeft), currentMove[1].offsetX),
            RSub(R(clientY - ContainerTop), currentMove[1].offsetY))

\* The box after one regionmove event: moved with the mouse, then each side
\* that left the container is put back on its boundary.
RegionStep(clientX, clientY) ==
  LET mouseX == R(clientX - ContainerLeft)
      mouseY == R(clientY - ContainerTop)
      b0 == move(box, RSub(mouseX, currentMove[1].offsetX),
                      RSub(mouseY, currentMove[1].offsetY))
      b1 == IF RLt(b0.x1, Zero) THEN move(b0, Zero, NULL) ELSE b0
      b2 == IF RLt(containerWidth, b1.x2)
            THEN move(b1, RSub(containerWidth, width(b1)), NULL) ELSE b1
      b3 == IF RLt(b2.y1, Zero) THEN move(b2, NULL, Zero) ELSE b2
  IN  IF RLt(containerHeight, b3.y2)
      THEN move(b3, NULL, RSub(containerHeight, height(b3))) ELSE b3

onRegionMoveMoving(clientX, clientY) ==
  /\ box' = RegionStep(clientX, clientY)
  /\ pending' = redraw(pending, box')
  /\ emitted' = Emit(emitted, "onSelectMove")
  /\ delivered' = Deliver("onSelectMove", box')
  /\ UNCHANGED <<options, activeHandle, currentMove, painted>>

onRegionMoveEnd ==
  /\ emitted' = Emit(emitted, "onSelectEnd")
  /\ delivered' = Deliver("onSelectEnd", box)
  /\ UNCHANGED <<options, box, activeHandle, currentMove, pending, painted>>


(***************************************************************************)
(* AreaSelection.reset                                                     *)
(***************************************************************************)
\* Mutant of reset: the initial rectangle is put where the region is.
reset_KeepingPosition ==
  /\ box' = move(initializeBox(options), box.x1, box.y1)
  /\ pending' = redraw(pending, box')
  /\ emitted' = Emit(emitted, "onSelectEnd")
  /\ delivered' = Deliver("onSelectEnd", box')
  /\ UNCHANGED <<options, activeHandle, currentMove, tmpBox, listeners, painted>>

reset ==
  /\ box' = initializeBox(options)
  /\ pending' = redraw(pending, box')
  /\ emitted' = Emit(emitted, "onSelectEnd")
  /\ delivered' = Deliver("onSelectEnd", box')
  /\ UNCHANGED <<options, activeHandle, currentMove, tmpBox, listeners, painted>>

(***************************************************************************)
(* AreaSelection.moveTo, resizeTo, scaleBy                                 *)
(***************************************************************************)
\* The instance itself, returned for chaining.
This == [what |-> "this", value |-> <<>>]

\* A parameter that was left out takes its default value.
Default(v, d) == IF v = NULL THEN d ELSE v

\* Mutant of moveTo: x and y are taken as a distance to move by.
moveTo_ByDistance(x, y) ==
  /\ box' = move(box, RAdd(box.x1, x), RAdd(box.y1, y))
  /\ pending' = redraw(pending, box')
  /\ emitted' = Emit(emitted, "onSelectEnd")
  /\ delivered' = Deliver("onSelectEnd", box')
  /\ returned' = This
  /\ UNCHANGED <<options, activeHandle, currentMove, tmpBox, listeners, painted>>

moveTo(x, y) ==
  /\ box' = move(box, x, y)
  /\ pending' = redraw(pending, box')
  /\ emitted' = Emit(emitted, "onSelectEnd")
  /\ delivered' = Deliver("onSelectEnd", box')
  /\ returned' = This
  /\ UNCHANGED <<options, activeHandle, currentMove, tmpBox, listeners, painted>>

\* Mutant of resizeTo: the origin argument is not handed on, the region is
\* resized about its centre.
resizeTo_AboutCentre(newWidth, newHeight, origin) ==
  /\ box' = resize(box, newWidth, newHeight, <<Half, Half>>)
  /\ pending' = redraw(pending, box')
  /\ emitted' = Emit(emitted, "onSelectEnd")
  /\ delivered' = Deliver("onSelectEnd", box')
  /\ returned' = This
  /\ UNCHANGED <<options, activeHandle, currentMove, tmpBox, listeners, painted>>

resizeTo(newWidth, newHeight, origin) ==
  /\ box' = resize(box, newWidth, newHeight, Default(origin, <<Half, Half>>))
  /\ pending' = redraw(pending, box')
  /\ emitted' = Emit(emitted, "onSelectEnd")
  /\ delivered' = Deliver("onSelectEnd", box')
  /\ returned' = This
  /\ UNCHANGED <<options, activeHandle, currentMove, tmpBox, listeners, painted>>

\* Mutant of scaleBy: the callback is invoked before the region is scaled.
scaleBy_NotifyingFirst(factor, origin) ==
  /\ box' = scale(box, factor, Default(origin, <<Half, Half>>))
  /\ pending' = redraw(pending, box')
  /\ emitted' = Emit(emitted, "onSelectEnd")
  /\ delivered' = Deliver("onSelectEnd", box)
  /\ returned' = This
  /\ UNCHANGED <<options, activeHandle, currentMove, tmpBox, listeners, painted>>

scaleBy(factor, origin) ==
  /\ box' = scale(box, factor, Default(origin, <<Half, Half>>))
  /\ pending' = redraw(pending, box')
  /\ emitted' = Emit(emitted, "onSelectEnd")
  /\ delivered' = Deliver("onSelectEnd", box')
  /\ returned' = This
  /\ UNCHANGED <<options, activeHandle, currentMove, tmpBox, listeners, painted>>

(***************************************************************************)
(* Core.parseOptions and Core.setOptions.  The options object handed to    *)
(* setOptions is a record of the keys it sets: aspectRatio is <<>> (null), *)
(* [number |-> r] or [array |-> <<w, h>>]; a size is <<>> (null) or        *)
(* [array |-> <<w, h>>, unit |-> u], u = "" when the array has no unit; a  *)
(* callback is TRUE for a function; returnMode is a string.                *)
(***************************************************************************)
\* Object.assign(this.options, opts): the value a key of opts leaves in the
\* options object.
Assigned(k, v) ==
  IF k = "aspectRatio"
  THEN IF v # NULL /\ "number" \in DOMAIN v THEN v.number ELSE v
  ELSE v

Merged(opts) ==
  [k \in DOMAIN options |->
     IF k \in DOMAIN opts THEN Assigned(k, opts[k]) ELSE options[k]]

\* String.prototype.toLowerCase, on the strings the model hands over.
ToLowerCase(str) ==
  CASE str = "RAW" -> "raw"
    [] str = "Ratio" -> "ratio"
    [] str = "REAL" -> "real"
    [] OTHER -> str

\* v || null
OrNull(v) == IF v = NULL \/ v = Zero THEN NULL ELSE v

\* The aspect ratio parsed from the merged object: a number is taken as it
\* is, an array [w, h] gives h / w, null stays null.
ParsedRatio(opts) ==
  IF "aspectRatio" \in DOMAIN opts
  THEN LET v == opts.aspectRatio
       IN  IF v = NULL THEN NULL
           ELSE IF "number" \in DOMAIN v THEN v.number
           ELSE RDiv(v.array[2], v.array[1])
  ELSE options.aspectRatio

\* A size parsed from the merged object.  An array of opts gives its width,
\* height and unit; the object parseOptions stored earlier has no elements
\* 0 and 1, so it gives null width and height; null gives the default.
ParsedSize(opts, k, unit, default) ==
  IF k \in DOMAIN opts
  THEN IF opts[k] = NULL THEN default
       ELSE [width |-> OrNull(opts[k].array[1]),
             height |-> OrNull(opts[k].array[2]),
             unit |-> IF opts[k].unit = "" THEN unit ELSE opts[k].unit]
  ELSE [width |-> NULL, height |-> NULL, unit |-> unit]

\* Whether parseOptions throws "Invalid return mode." on the merged object.
ParseThrows(opts) ==
  ToLowerCase(Merged(opts).returnMode) \notin {"real", "ratio", "raw"}

\* parseOptions of the merged object.
parseOptions(opts) ==
  [aspectRatio |-> ParsedRatio(opts),
   maxSize |-> ParsedSize(opts, "maxSize", "px", NoSize),
   minSize |-> ParsedSize(opts, "minSize", "px", NoSize),
   startSize |-> ParsedSize(opts, "startSize", "%",
                            [width |-> R(100), height |-> R(100),
                             unit |-> "%"]),
   returnMode |-> ToLowerCase(Merged(opts).returnMode),
   onSelectStart |-> Merged(opts).onSelectStart,
   onSelectMove |-> Merged(opts).onSelectMove,
   onSelectEnd |-> Merged(opts).onSelectEnd]

\* setOptions: Object.assign has changed this.options before parseOptions
\* runs; when parseOptions throws, nothing else happens.
setOptions(opts) ==
  IF ParseThrows(opts)
  THEN /\ options' = Merged(opts)
       /\ returned' = [what |-> "throw", value |-> <<>>]
       /\ UNCHANGED <<box, activeHandle, currentMove, tmpBox, listeners,
                      pending, painted, emitted, delivered>>
  ELSE /\ options' = parseOptions(opts)
       /\ box' = initializeBox(options')
       /\ pending' = redraw(pending, box')
       /\ returned' = [what |-> "undefined", value |-> <<>>]
       /\ UNCHANGED <<activeHandle, currentMove, tmpBox, listeners, painted,
                      emitted, delivered>>

(***************************************************************************)
(* The animation frame: the callbacks handed to requestAnimationFrame run  *)
(* in the order they were handed over, each one setting the region's style.*)
(***************************************************************************)
\* Mutant of RunCallbacks: only the callback handed over first paints.
RunCallbacks_FirstWins(style, queue) ==
  IF queue = <<>> THEN style ELSE <<Head(queue)>>

RECURSIVE RunCallbacks(_, _)
RunCallbacks(style, queue) ==
  IF queue = <<>> THEN style
  ELSE RunCallbacks(<<Head(queue)>>, Tail(queue))

(***************************************************************************)
(* Where the pointer is: the region element lies where it was last painted,*)
(* the overlay fills the rest of the container.                            *)
(***************************************************************************)
InContainer(clientX, clientY) ==
  /\ clientX - ContainerLeft \in 0 .. ContainerWidth - 1
  /\ clientY - ContainerTop \in 0 .. ContainerHeight - 1

OverRegion(clientX, clientY) ==
  /\ painted # <<>>
  /\ clientX - ContainerLeft >= painted[1].x1
  /\ clientX - ContainerLeft < painted[1].x1 + painted[1].width
  /\ clientY - ContainerTop >= painted[1].y1
  /\ clientY - ContainerTop < painted[1].y1 + painted[1].height

(***************************************************************************)
(* Configurations.                                                         *)
(***************************************************************************)
Size(w, h) == [width |-> R(w), height |-> R(h)]
FullSize == [width |-> containerWidth, height |-> containerHeight]

Options(ratio, minSize, maxSize, startSize, callbacks) ==
  [aspectRatio |-> ratio, minSize |-> minSize, maxSize |-> maxSize,
   startSize |-> startSize, returnMode |-> "real",
   onSelectStart |-> callbacks, onSelectMove |-> callbacks,
   onSelectEnd |-> callbacks]

(***************************************************************************)
(* Core.initialize: the state once the instance is initialized.            *)
(***************************************************************************)
NoHist ==
  [moves |-> 0, last |-> "initialize", boxAtDown |-> <<>>, origin |-> <<>>,
   resetInGesture |-> FALSE, callInGesture |-> FALSE, restored |-> FALSE,
   mouse |-> <<>>, call |-> <<>>, initial |-> <<>>]

\* What no call of the public interface has returned yet.
NothingReturned == [what |-> "none", value |-> <<>>]

Initialized(opts, bud) ==
  /\ options = opts
  /\ box = initializeBox(options)
  /\ activeHandle = <<>>
  /\ currentMove = <<>>
  /\ tmpBox = <<>>
  /\ listeners = "none"
  /\ pending = redraw(<<>>, box)
  /\ painted = <<>>
  /\ emitted = <<>>
  /\ delivered = <<>>
  /\ returned = NothingReturned
  /\ env = bud
  /\ hist = [NoHist EXCEPT !.initial = <<[box |-> box, options |-> opts]>>]

(***************************************************************************)
(* Pointer gestures.                                                       *)
(***************************************************************************)
Down(name) ==
  [hist EXCEPT !.moves = 0, !.last = name, !.boxAtDown = <<box>>,
               !.origin = <<>>, !.resetInGesture = FALSE,
               !.callInGesture = FALSE,
               !.restored = FALSE, !.mouse = <<>>, !.call = <<>>]

Moved(name, origin) ==
  [hist EXCEPT !.moves = @ + 1, !.last = name, !.origin = origin,
               !.call = <<>>]

Up(name) ==
  [hist EXCEPT !.last = name, !.boxAtDown = <<>>, !.origin = <<>>,
               !.mouse = <<>>, !.call = <<>>]

CanStart == listeners = "none" /\ env.gestures > 0
CanMove == env.moves > 0 /\ Len(pending) < env.pending

\* A handle element: mousedown, mousemove and mouseup become handlestart,
\* handlemove and handleend.
HandleMouseDown(h) ==
  /\ CanStart
  /\ listeners' = "handle"
  /\ box' = box
  /\ onHandleMoveStart(h)
  /\ env' = [env EXCEPT !.gestures = @ - 1]
  /\ hist' = Down("HandleMouseDown")
  /\ UNCHANGED <<tmpBox, returned>>

HandleMouseMove(clientX, clientY) ==
  /\ listeners = "handle"
  /\ CanMove
  /\ onHandleMoveMoving(clientX, clientY)
  /\ env' = [env EXCEPT !.moves = @ - 1]
  /\ hist' = [Moved("HandleMouseMove", <<StepOrigin(clientX, clientY)>>)
                EXCEPT !.mouse = <<R(clientX - ContainerLeft),
                                   R(clientY - ContainerTop)>>]
  /\ UNCHANGED <<tmpBox, listeners, returned>>

HandleMouseUp ==
  /\ listeners = "handle"
  /\ listeners' = "none"
  /\ onHandleMoveEnd
  /\ hist' = Up("HandleMouseUp")
  /\ UNCHANGED <<tmpBox, env, returned>>

\* The region element (attachRegionEvents).
RegionMouseDown(clientX, clientY) ==
  /\ CanStart
  /\ OverRegion(clientX, clientY)
  /\ listeners' = "region"
  /\ onRegionMoveStart(clientX, clientY)
  /\ env' = [env EXCEPT !.gestures = @ - 1]
  /\ hist' = Down("RegionMouseDown")
  /\ UNCHANGED <<tmpBox, returned>>

RegionMouseMove(clientX, clientY) ==
  /\ listeners = "region"
  /\ CanMove
  /\ onRegionMoveMoving(clientX, clientY)
  /\ env' = [env EXCEPT !.moves = @ - 1]
  /\ hist' = [Moved("RegionMouseMove", <<>>) EXCEPT
                !.mouse = <<R(clientX - ContainerLeft),
                            R(clientY - ContainerTop)>>]
  /\ UNCHANGED <<tmpBox, listeners, returned>>

RegionMouseUp ==
  /\ listeners = "region"
  /\ listeners' = "none"
  /\ onRegionMoveEnd
  /\ hist' = Up("RegionMouseUp")
  /\ UNCHANGED <<tmpBox, env, returned>>

\* Mutant of OverlayMouseDown: the box is saved after it was replaced.
OverlayMouseDown_SavingLate(clientX, clientY) ==
  LET mouseX == R(clientX - ContainerLeft)
      mouseY == R(clientY - ContainerTop)
  IN  /\ listeners = "none" /\ env.gestures > 0
      /\ InContainer(clientX, clientY)
      /\ ~OverRegion(clientX, clientY)
      /\ listeners' = "overlay"
      /\ box' = Box(mouseX, mouseY, RAdd(mouseX, One), RAdd(mouseY, One))
      /\ tmpBox' = <<box'>>
      /\ onHandleMoveStart(SOUTHEAST_HANDLE_IDX)
      /\ env' = [env EXCEPT !.gestures = @ - 1]
      /\ hist' = Down("OverlayMouseDown")
      /\ UNCHANGED returned

\* The overlay element (attachOverlayEvents).
OverlayMouseDown(clientX, clientY) ==
  LET mouseX == R(clientX - ContainerLeft)
      mouseY == R(clientY - ContainerTop)
  IN  /\ CanStart
      /\ InContainer(clientX, clientY)
      /\ ~OverRegion(clientX, clientY)
      /\ listeners' = "overlay"
      /\ tmpBox' = <<box>>
      /\ box' = Box(mouseX, mouseY, RAdd(mouseX, One), RAdd(mouseY, One))
      /\ onHandleMoveStart(SOUTHEAST_HANDLE_IDX)
      /\ env' = [env EXCEPT !.gestures = @ - 1]
      /\ hist' = [Down("OverlayMouseDown") EXCEPT !.mouse = <<mouseX, mouseY>>]
      /\ UNCHANGED returned

OverlayMouseMove(clientX, clientY) ==
  /\ listeners = "overlay"
  /\ CanMove
  /\ onHandleMoveMoving(clientX, clientY)
  /\ env' = [env EXCEPT !.moves = @ - 1]
  /\ hist' = [Moved("OverlayMouseMove", <<StepOrigin(clientX, clientY)>>)
                EXCEPT !.mouse = <<R(clientX - ContainerLeft),
                                   R(clientY - ContainerTop)>>]
  /\ UNCHANGED <<tmpBox, listeners, returned>>

OverlayMouseUp ==
  /\ listeners = "overlay"
  /\ listeners' = "none"
  /\ IF width(box) = One /\ height(box) = One
     THEN /\ box' = tmpBox[1]
          /\ UNCHANGED <<options, activeHandle, currentMove, pending,
                         painted, emitted, delivered>>
     ELSE onHandleMoveEnd
  /\ hist' = [Up("OverlayMouseUp") EXCEPT
                !.restored = (width(box) = One /\ height(box) = One)]
  /\ UNCHANGED <<tmpBox, env, returned>>

\* reset() called by the application, between any two events.
Reset ==
  /\ env.resets > 0
  /\ env.resetInGesture \/ listeners = "none"
  /\ Len(pending) < env.pending
  /\ reset
  /\ env' = [env EXCEPT !.resets = @ - 1]
  /\ returned' = This
  /\ hist' = [hist EXCEPT !.last = "Reset", !.origin = <<>>,
                          !.mouse = <<>>,
                          !.call = <<[args |-> <<>>, box |-> box,
                                      options |-> options]>>,
                          !.resetInGesture = (listeners # "none")]

\* The application calls the public interface, between any two events.
CanCall ==
  /\ env.calls > 0
  /\ env.resetInGesture \/ listeners = "none"

Called(name, args) ==
  [hist EXCEPT !.last = name, !.origin = <<>>, !.mouse = <<>>,
               !.call = <<[args |-> args, box |-> box, options |-> options]>>,
               !.callInGesture = (listeners # "none")]

MoveTo(x, y) ==
  /\ CanCall
  /\ Len(pending) < env.pending
  /\ moveTo(x, y)
  /\ env' = [env EXCEPT !.calls = @ - 1]
  /\ hist' = Called("MoveTo", <<x, y>>)

ResizeTo(newWidth, newHeight, origin) ==
  /\ CanCall
  /\ Len(pending) < env.pending
  /\ resizeTo(newWidth, newHeight, origin)
  /\ env' = [env EXCEPT !.calls = @ - 1]
  /\ hist' = Called("ResizeTo", <<newWidth, newHeight, origin>>)

ScaleBy(factor, origin) ==
  /\ CanCall
  /\ Len(pending) < env.pending
  /\ scaleBy(factor, origin)
  /\ env' = [env EXCEPT !.calls = @ - 1]
  /\ hist' = Called("ScaleBy", <<factor, origin>>)

SetOptions(opts) ==
  /\ CanCall
  /\ Len(pending) < env.pending
  /\ setOptions(opts)
  /\ env' = [env EXCEPT !.calls = @ - 1]
  /\ hist' = Called("SetOptions", opts)

GetValue(mode) ==
  /\ CanCall
  /\ returned' = [what |-> "value", value |-> getValue(mode)]
  /\ env' = [env EXCEPT !.calls = @ - 1]
  /\ hist' = [hist EXCEPT !.last = "GetValue", !.origin = <<>>,
                          !.mouse = <<>>,
                          !.call = <<[args |-> mode, box |-> box,
                                      options |-> options]>>]
  /\ UNCHANGED <<options, box, activeHandle, currentMove, tmpBox, listeners,
                 pending, painted, emitted, delivered>>

\* The browser runs the next animation frame.
Frame ==
  /\ pending # <<>>
  /\ painted' = RunCallbacks(painted, pending)
  /\ pending' = <<>>
  /\ hist' = [hist EXCEPT !.last = "Frame", !.origin = <<>>,
                          !.mouse = <<>>, !.call = <<>>]
  /\ UNCHANGED <<options, box, activeHandle, currentMove, tmpBox, listeners,
                 emitted, delivered, returned, env>>

Next ==
  \/ \E h \in env.handles : HandleMouseDown(h)
  \/ \E x \in env.xs, y \in env.ys : HandleMouseMove(x, y)
  \/ HandleMouseUp
  \/ \E x \in env.xs, y \in env.ys : RegionMouseDown(x, y)
  \/ \E x \in env.xs, y \in env.ys : RegionMouseMove(x, y)
  \/ RegionMouseUp
  \/ \E x \in env.xs, y \in env.ys : OverlayMouseDown(x, y)
  \/ \E x \in env.xs, y \in env.ys : OverlayMouseMove(x, y)
  \/ OverlayMouseUp
  \/ Reset
  \/ \E p \in env.points : MoveTo(p[1], p[2])
  \/ \E sz \in env.sizes, o \in env.origins : ResizeTo(sz[1], sz[2], o)
  \/ \E f \in env.factors, o \in env.origins : ScaleBy(f, o)
  \/ \E o \in env.opts : SetOptions(o)
  \/ \E m \in env.modes : GetValue(m)
  \/ Frame

(***************************************************************************)
(* Spec: the interaction state machine.  Two gestures, reset() at any      *)
(* moment, several redraws per frame; a free and a square region, a few    *)
(* pointer positions.                                                      *)
(***************************************************************************)
\* The calls of the public interface the application makes: none, or one
\* call.
NoCalls ==
  [calls |-> 0, points |-> {}, sizes |-> {}, origins |-> {}, factors |-> {},
   opts |-> {}, modes |-> {}]

OneCall ==
  [calls |-> MaxCalls - 1, points |-> {<<Zero, Zero>>},
   sizes |-> {<<One, One>>}, origins |-> {NULL}, factors |-> {Half},
   opts |-> {[aspectRatio |-> [number |-> One]]}, modes |-> {<<>>}]

\* One call, which may be a moveTo that leaves the region reaching over the
\* right side of the container.
OneCallOrOutside ==
  [OneCall EXCEPT !.points = {<<Zero, Zero>>, <<R(2), One>>}]

Init ==
  \E c \in {<<NULL, TRUE>>, <<NULL, FALSE>>, <<One, TRUE>>} :
    \/ Initialized(Options(c[1], NoSize, NoSize, Size(2, 1), c[2]),
                   [gestures |-> MaxGestures, moves |-> MaxMoves,
                    resets |-> MaxResets, resetInGesture |-> TRUE,
                    pending |-> MaxPending,
                    handles |-> {1, 2, SOUTHEAST_HANDLE_IDX},
                    xs |-> FewClientXs, ys |-> FewClientYs] @@ NoCalls)
    \/ Initialized(Options(c[1], NoSize, NoSize, Size(2, 1), c[2]),
                   [gestures |-> MaxGestures - 1, moves |-> MaxMoves - 1,
                    resets |-> MaxResets, resetInGesture |-> TRUE,
                    pending |-> MaxPending,
                    handles |-> {1, 2, SOUTHEAST_HANDLE_IDX},
                    xs |-> FewClientXs, ys |-> FewClientYs] @@ OneCall)

Spec == Init /\ [][Next]_vars

(***************************************************************************)
(* SpecGeometry: the geometry of one gesture, for every handle, every      *)
(* pointer position and every combination of aspect ratio, minimum size    *)
(* and maximum size.                                                       *)
(***************************************************************************)
AspectRatios == {NULL, One, Half, R(2)}
MinSizes == {NoSize, Size(2, 1)}
MaxSizes == {NoSize, Size(2, 2)}

InitGeometry ==
  \E r \in AspectRatios, mn \in MinSizes, mx \in MaxSizes :
    \/ Initialized(Options(r, mn, mx, Size(2, 1), TRUE),
                   [gestures |-> MaxGestures - 1, moves |-> MaxMoves,
                    resets |-> MaxResets, resetInGesture |-> FALSE,
                    pending |-> MaxPending - 1,
                    handles |-> 1 .. Len(HANDLES),
                    xs |-> ClientXs, ys |-> ClientYs] @@ NoCalls)
    \/ Initialized(Options(r, mn, mx, Size(2, 1), TRUE),
                   [gestures |-> MaxGestures - 1, moves |-> MaxMoves - 1,
                    resets |-> MaxResets - 1, resetInGesture |-> FALSE,
                    pending |-> MaxPending - 1,
                    handles |-> 1 .. Len(HANDLES),
                    xs |-> ClientXs, ys |-> ClientYs] @@ OneCallOrOutside)

SpecGeometry == InitGeometry /\ [][Next]_vars

(***************************************************************************)
(* SpecApi: the public interface.  Calls of moveTo, resizeTo, scaleBy,     *)
(* setOptions and getValue with arguments that reach outside the container *)
(* and between the pixels, reset() twice, and one short gesture.           *)
(***************************************************************************)
ApiCalls ==
  [calls |-> MaxCalls,
   points |-> {<<<<1, 4 * 10 ^ 5>>, Zero>>, <<Half, One>>,
               <<R(2), One>>},
   sizes |-> {<<Zero, Zero>>, <<One, Half>>, <<R(4), R(3)>>},
   origins |-> {NULL, <<Zero, Zero>>, <<One, Half>>},
   factors |-> {Half, R(2)},
   opts |-> {[returnMode |-> "bogus"], [returnMode |-> "RAW"],
             [aspectRatio |-> [number |-> R(2)]],
             [returnMode |-> "bogus", aspectRatio |-> [number |-> One]]},
   modes |-> {<<>>, <<"real">>, <<"ratio">>, <<"raw">>, <<"bogus">>}]

InitApi ==
  \E c \in {<<NULL, "real", TRUE>>, <<One, "ratio", TRUE>>,
             <<NULL, "raw", FALSE>>} :
    Initialized([Options(c[1], NoSize, NoSize, Size(2, 1), c[3])
                   EXCEPT !.returnMode = c[2]],
                [gestures |-> MaxGestures - 1, moves |-> MaxMoves - 1,
                 resets |-> MaxResets + 1, resetInGesture |-> FALSE,
                 pending |-> MaxPending - 1,
                 handles |-> {SOUTHEAST_HANDLE_IDX},
                 xs |-> {ContainerLeft + 1, ContainerLeft + ContainerWidth},
                 ys |-> {ContainerTop + 1}] @@ ApiCalls)

SpecApi == InitApi /\ [][Next]_vars

(***************************************************************************)
(* SpecInitial: the initial rectangle, for start sizes from nothing to     *)
(* several times the container, every aspect ratio and every combination   *)
(* of minimum and maximum size, and one call or short gesture after it.    *)
(***************************************************************************)
StartSizes ==
  {NoSize, Size(2, 1), FullSize, Size(4, 3), Size(7, 1), Size(10, 3)}

InitInitial ==
  \E st \in StartSizes, r \in {NULL, One, R(2)}, mn \in MinSizes,
     mx \in MaxSizes :
    Initialized(Options(r, mn, mx, st, TRUE),
                [gestures |-> MaxGestures - 1, moves |-> MaxMoves - 1,
                 resets |-> MaxResets, resetInGesture |-> FALSE,
                 pending |-> MaxPending - 1,
                 handles |-> {SOUTHEAST_HANDLE_IDX},
                 xs |-> {ContainerLeft + 1, ContainerLeft + ContainerWidth},
                 ys |-> {ContainerTop + 1}] @@ OneCall)

SpecInitial == InitInitial /\ [][Next]_vars

(***************************************************************************)
(* SpecSession: one resize session of two pointer-moves, with an edge or a *)
(* corner handle, on an initial region as wide as the minimum size or      *)
(* wider, or on the region one call of the public interface has made       *)
(* larger than the container or moved over its side.                       *)
(***************************************************************************)
OneLargeCall ==
  [calls |-> MaxCalls - 1, points |-> {<<R(2), One>>},
   sizes |-> {<<R(4), R(3)>>}, origins |-> {NULL}, factors |-> {R(2)},
   opts |-> {[aspectRatio |-> [number |-> One]]}, modes |-> {<<>>}]

InitSession ==
  \E r \in {NULL, R(2)}, mn \in MinSizes, mx \in MaxSizes,
     st \in {Size(2, 1), Size(3, 1)} :
    Initialized(Options(r, mn, mx, st, TRUE),
                [gestures |-> MaxGestures - 1, moves |-> MaxMoves,
                 resets |-> MaxResets, resetInGesture |-> FALSE,
                 pending |-> MaxPending,
                 handles |-> {2, 4, SOUTHEAST_HANDLE_IDX},
                 xs |-> FewClientXs, ys |-> FewClientYs] @@ OneLargeCall)

SpecSession == InitSession /\ [][Next]_vars

(***************************************************************************)
(* Properties.                                                             *)
(***************************************************************************)
\* No call of the public interface changed the region during the gesture.
Undisturbed == ~hist.resetInGesture /\ ~hist.callInGesture

AfterResizeStep == hist.last \in {"HandleMouseMove", "OverlayMouseMove"}

Contained(b) ==
  /\ RLe(Zero, b.x1) /\ RLe(b.x1, containerWidth)
  /\ RLe(Zero, b.x2) /\ RLe(b.x2, containerWidth)
  /\ RLe(Zero, b.y1) /\ RLe(b.y1, containerHeight)
  /\ RLe(Zero, b.y2) /\ RLe(b.y2, containerHeight)

HasRatio(b, ratio) == height(b) = RMul(ratio, width(b))

WithinSizes(b, opts) ==
  /\ opts.minSize.width = NULL \/ RLe(opts.minSize.width, width(b))
  /\ opts.minSize.height = NULL \/ RLe(opts.minSize.height, height(b))
  /\ opts.maxSize.width = NULL \/ RLe(width(b), opts.maxSize.width)
  /\ opts.maxSize.height = NULL \/ RLe(height(b), opts.maxSize.height)

StartedInside ==
  listeners = "overlay" \/ Contained(hist.boxAtDown[1])

RatioFitsSizes(opts) ==
  LET r == opts.aspectRatio
      los == {v \in {opts.minSize.width,
                     IF opts.minSize.height = NULL THEN NULL
                     ELSE RDiv(opts.minSize.height, r)} : v # NULL}
      his == {v \in {opts.maxSize.width,
                     IF opts.maxSize.height = NULL THEN NULL
                     ELSE RDiv(opts.maxSize.height, r)} : v # NULL}
  IN  \A lo \in los, hi \in his : RLe(lo, hi)

RatioCase ==
  /\ options.aspectRatio # NULL
  /\ AfterResizeStep \/ hist.last \in {"initialize", "Reset"}

\* C2 as stated: with an aspect ratio configured, the rectangle made by
\* initialize/reset and by every resize step has height = ratio * width.
C2_RatioAlways == RatioCase => HasRatio(box, options.aspectRatio)

\* C2 as amended: with an aspect ratio configured that the minimum and
\* maximum sizes do not contradict, the rectangle made by initialize/reset
\* and by every resize step has height = ratio * width.
C2_RatioUnlessSizesConflict ==
  (RatioCase /\ RatioFitsSizes(options)) => HasRatio(box, options.aspectRatio)

\* C2 witness: a resize step under a ratio of 2 and a minimum size that left
\* a rectangle of that ratio which is not empty.
C2_Witness ==
  /\ AfterResizeStep
  /\ options.aspectRatio = R(2)
  /\ options.minSize # NoSize
  /\ RatioFitsSizes(options)
  /\ RLt(Zero, width(box))
  /\ hist.origin[1] # activeHandle[1].originPoint

\* C3 as stated: with compatible minimum and maximum sizes, after every
\* resize step the width and the height lie within them.
C3_SizesAlways == AfterResizeStep => WithinSizes(box, options)

Touches(b) ==
  \/ b.x1 = Zero \/ b.x2 = containerWidth
  \/ b.y1 = Zero \/ b.y2 = containerHeight

\* C3 as amended: after every resize step the width and the height do not
\* exceed the maximum; they reach the minimum too unless the boundary, which
\* is constrained last, shrank the rectangle, which then touches the
\* boundary of the container.
C3_MaxAlwaysMinUnlessShrunk ==
  AfterResizeStep =>
    /\ WithinSizes(box, [options EXCEPT !.minSize = NoSize])
    /\ WithinSizes(box, options) \/ Touches(box)

\* C3 witness: a resize step under a minimum and a maximum size whose
\* rectangle has exactly the maximum width and does not touch the boundary.
C3_Witness ==
  /\ AfterResizeStep
  /\ options.minSize # NoSize /\ options.maxSize # NoSize
  /\ width(box) = options.maxSize.width
  /\ ~Touches(box)

\* C4: throughout a resize session in which the application does not reset
\* the rectangle, after every move step the corners are ordered and the
\* mirrored origin point is where the origin was captured at the start.
C4_FlipKeepsOrigin ==
  (AfterResizeStep /\ Undisturbed) =>
    /\ RLe(box.x1, box.x2) /\ RLe(box.y1, box.y2)
    /\ getAbsolutePoint(box, hist.origin[1])
         = <<activeHandle[1].originX, activeHandle[1].originY>>

\* C4 witness: a step dragged past the origin on both axes.
C4_Witness ==
  /\ AfterResizeStep
  /\ hist.origin[1][1] # activeHandle[1].originPoint[1]
  /\ hist.origin[1][2] # activeHandle[1].originPoint[2]
  /\ RLt(Zero, width(box)) /\ RLt(Zero, height(box))

RECURSIVE Repeat(_, _)
Repeat(kind, n) == IF n = 0 THEN <<>> ELSE <<kind>> \o Repeat(kind, n - 1)

GestureEnded ==
  /\ listeners = "none"
  /\ hist.last \in {"HandleMouseUp", "RegionMouseUp", "OverlayMouseUp"}

\* C5: with the three callbacks configured and no reset() during the
\* gesture, a gesture (handle resize, region drag, overlay create) that has
\* ended emitted one onSelectStart, then one onSelectMove per pointer-move,
\* then one onSelectEnd.
C5_StartMovesEnd ==
  (GestureEnded /\ Undisturbed /\ options.onSelectStart
     /\ options.onSelectMove /\ options.onSelectEnd)
  => emitted = <<"onSelectStart">> \o Repeat("onSelectMove", hist.moves)
                 \o <<"onSelectEnd">>

\* C6: a pointer-up on the overlay that follows its pointer-down with no
\* pointer-move and no reset() in between leaves the rectangle that was live
\* before the pointer-down.
C6_ClickRestores ==
  [][(listeners = "overlay" /\ listeners' = "none" /\ hist.moves = 0
        /\ Undisturbed)
     => box' = hist.boxAtDown[1]]_vars

\* C6 witness: an overlay click has ended and the rectangle is the saved
\* one, not the 1x1 rectangle of the click.
C6_Witness ==
  /\ hist.last = "OverlayMouseUp" /\ hist.moves = 0 /\ hist.restored
  /\ Undisturbed
  /\ box = tmpBox[1] /\ width(box) # One

\* C7: when the overlay's pointer-up follows the pointer-down with
\* no pointer-move and restores the rectangle, no callback was emitted.
C7_ClickSilent ==
  (hist.last = "OverlayMouseUp" /\ hist.moves = 0 /\ hist.restored
     /\ Undisturbed)
  => emitted = <<>>

\* C8 as stated: after the end event of a resize or region-drag session no
\* session state is held.
C8_SessionDiscarded ==
  (listeners = "none" /\ hist.last \in {"HandleMouseUp", "RegionMouseUp"})
  => (activeHandle = <<>> /\ currentMove = <<>>)

\* The calls of the public interface.
Calls == {"Reset", "MoveTo", "ResizeTo", "ScaleBy", "SetOptions", "GetValue"}

\* C8 as amended: a step that ends idle leaves activeHandle and currentMove
\* as they were, so after a session they still hold its handle, origin and
\* offset; while idle no move event arrives: the rectangle and the emitted
\* callbacks change by calls of the public interface only.
C8_IdleKeepsSessionFields ==
  [][listeners' = "none" =>
       /\ activeHandle' = activeHandle /\ currentMove' = currentMove
       /\ hist'.last = "HandleMouseUp" => activeHandle' # <<>>
       /\ hist'.last = "RegionMouseUp" => currentMove' # <<>>
       /\ listeners = "none" =>
            \/ hist'.last \in Calls
            \/ box' = box /\ emitted' = emitted]_vars

\* C8 witness: a region drag ended after a resize session; both sessions'
\* fields are still held.
C8_Witness ==
  /\ listeners = "none" /\ hist.last = "RegionMouseUp"
  /\ activeHandle # <<>> /\ currentMove # <<>>

\* C9: once reset() was called between a pointer-down and its pointer-up,
\* the rectangle stays the reset rectangle for the rest of that gesture.
C9_ResetEndsSession ==
  (hist.resetInGesture /\ ~hist.callInGesture)
  => box = initializeBox(options)

\* C10 as stated: at most one render is pending at any time.
C10_OnePending == Len(pending) <= 1

\* C10 as amended: every redraw hands one more callback, holding the rounded
\* rectangle of that moment, to the next frame; the frame runs all of them
\* and leaves painted what the last one holds.
C10_FramePaintsLastRedraw ==
  [][/\ (pending # <<>> /\ pending' = <<>>)
          => painted' = <<pending[Len(pending)]>>
     /\ hist'.last \in {"HandleMouseMove", "OverlayMouseMove",
                        "RegionMouseMove", "Reset", "MoveTo", "ResizeTo",
                        "ScaleBy"}
          => pending' = Append(pending, Snapshot(box'))]_vars

\* C10 witness: two different renders are pending before the frame.
C10_Witness ==
  /\ Len(pending) = 2 /\ pending[1] # pending[2]

\* C11: every step of a region-drag session (start, move for any pointer
\* position, end) leaves the rectangle's width and height as they were.
C11_RegionDragKeepsSize ==
  [][hist'.last \in {"RegionMouseDown", "RegionMouseMove", "RegionMouseUp"}
     => (width(box') = width(box) /\ height(box') = height(box))]_vars

\* C11 witness: a region move pushed the rectangle against the left edge of
\* the container, away from where the drag started, with its size kept.
C11_Witness ==
  /\ hist.last = "RegionMouseMove"
  /\ RLt(hist.mouse[1], currentMove[1].offsetX)
  /\ box.x1 = Zero /\ hist.boxAtDown[1].x1 # Zero
  /\ width(box) = width(hist.boxAtDown[1])
  /\ height(box) = height(hist.boxAtDown[1])

\* The rectangle is no larger than the container.
FitsContainer(b) ==
  RLe(width(b), containerWidth) /\ RLe(height(b), containerHeight)

\* Where the region move wants the rectangle: the pointer minus the offset
\* captured at the start.
DragTarget ==
  move(box, RSub(hist.mouse[1], currentMove[1].offsetX),
            RSub(hist.mouse[2], currentMove[1].offsetY))

\* C12: when the rectangle was no larger than the container at the start of
\* a region drag, after every region-move step all four edges lie inside
\* the container, and when the rectangle placed at pointer minus offset
\* lies inside the container the first corner is exactly there.
C12_RegionDragContained ==
  (hist.last = "RegionMouseMove" /\ Undisturbed
     /\ FitsContainer(hist.boxAtDown[1]))
  => /\ Contained(box)
     /\ Contained(DragTarget) =>
          (box.x1 = DragTarget.x1 /\ box.y1 = DragTarget.y1)

\* C12 witness: a region move whose pointer would have put the right and
\* bottom edges outside the container.
C12_Witness ==
  /\ hist.last = "RegionMouseMove" /\ Undisturbed
  /\ FitsContainer(hist.boxAtDown[1])
  /\ RLt(containerWidth, RAdd(RSub(hist.mouse[1], currentMove[1].offsetX),
                              width(box)))
  /\ RLt(containerHeight, RAdd(RSub(hist.mouse[2], currentMove[1].offsetY),
                               height(box)))
  /\ box.x2 = containerWidth /\ box.y2 = containerHeight

RMax(a, b) == IF RLe(a, b) THEN b ELSE a

\* The pointer of the last move lies in the container.
PointerInside ==
  /\ RLe(Zero, hist.mouse[1]) /\ RLe(hist.mouse[1], containerWidth)
  /\ RLe(Zero, hist.mouse[2]) /\ RLe(hist.mouse[2], containerHeight)

\* The square se-drag scenario: aspect ratio 1, no size bounds, a square
\* region with its top-left corner at (0, 0), the se handle moved to a
\* pointer in the container.
SquareDrag ==
  /\ hist.last = "HandleMouseMove" /\ Undisturbed
  /\ options.aspectRatio = One
  /\ options.minSize = NoSize /\ options.maxSize = NoSize
  /\ activeHandle[1].handle = SOUTHEAST_HANDLE_IDX
  /\ hist.boxAtDown[1].x1 = Zero /\ hist.boxAtDown[1].y1 = Zero
  /\ width(hist.boxAtDown[1]) = height(hist.boxAtDown[1])
  /\ PointerInside

BelowMinimum ==
  /\ hist.last = "HandleMouseMove" /\ Undisturbed
  /\ options.aspectRatio = NULL
  /\ options.minSize # NoSize /\ options.maxSize = NoSize
  /\ MULTI_AXIS(activeHandle[1].handle)
  /\ RLt(RAbs(RSub(ClampMouse(hist.mouse[1], containerWidth),
                   activeHandle[1].originX)),
         options.minSize.width)
  /\ RLt(RAbs(RSub(ClampMouse(hist.mouse[2], containerHeight),
                   activeHandle[1].originY)),
         options.minSize.height)

Anchored ==
  getAbsolutePoint(box, hist.origin[1])
    = <<activeHandle[1].originX, activeHandle[1].originY>>

\* The container has room for the minimum size on the side of the anchor
\* where the rectangle lies.
RoomForMinimum ==
  /\ RLe(options.minSize.width,
         MaxExtent(activeHandle[1].originX, hist.origin[1][1], containerWidth))
  /\ RLe(options.minSize.height,
         MaxExtent(activeHandle[1].originY, hist.origin[1][2], containerHeight))

\* C14 as stated: in the minimum-size scenario the move yields a rectangle
\* of exactly the minimum size whose corner opposite the dragged handle is at
\* the anchor.
C14_ExactlyMinimum ==
  BelowMinimum =>
    /\ width(box) = options.minSize.width
    /\ height(box) = options.minSize.height
    /\ Anchored

\* C14 as amended: in the minimum-size scenario the rectangle's corner
\* opposite the dragged handle is at the anchor; the rectangle has exactly
\* the minimum size when the container has room for it on that side of the
\* anchor, and otherwise is smaller than the minimum and reaches the
\* boundary of the container.
C14_MinimumWhereRoom ==
  BelowMinimum =>
    /\ Anchored
    /\ RLe(width(box), options.minSize.width)
    /\ RLe(height(box), options.minSize.height)
    /\ IF RoomForMinimum
       THEN /\ width(box) = options.minSize.width
            /\ height(box) = options.minSize.height
       ELSE Touches(box) /\ ~WithinSizes(box, options)

\* C14 witness: a corner handle was moved onto a pointer less than the
\* minimum away from the anchor, and the rectangle took the minimum size at
\* the anchor, away from the boundary on the pointer's side.
C14_Witness ==
  /\ BelowMinimum
  /\ RoomForMinimum
  /\ width(box) = options.minSize.width
  /\ height(box) = options.minSize.height
  /\ Anchored
  /\ RLt(Zero, box.x1) \/ RLt(box.x2, containerWidth)

\* C15: with the options as initialize left them, reset() yields exactly the
\* rectangle that initialize produced, whatever gestures and moveTo,
\* resizeTo and scaleBy calls came before, a first reset() included.
C15_ResetRestoresInitial ==
  (hist.last = "Reset" /\ options = hist.initial[1].options) =>
    box = hist.initial[1].box

\* C15 witness: reset() was called on a region that a call or a gesture had
\* changed, and the region is the initial one again.
C15_Witness ==
  /\ hist.last = "Reset"
  /\ options = hist.initial[1].options
  /\ hist.call[1].box # hist.initial[1].box
  /\ env.calls < MaxCalls
  /\ box = hist.initial[1].box

\* C16: after a setOptions call that fails on an invalid return mode, the
\* options and the rectangle are what they were before the call, and
\* getValue() returns what it returned before the call.
C16_RejectedLeavesUnchanged ==
  (hist.last = "SetOptions" /\ returned.what = "throw") =>
    /\ options = hist.call[1].options
    /\ box = hist.call[1].box
    /\ getValue(<<>>)
         = ValueOf(hist.call[1].box, <<hist.call[1].options.returnMode>>,
                   elementWidth, elementHeight)

\* The origin of a resizeTo or scaleBy call: the argument, or the centre
\* when it was left out.
OriginOf(origin) == IF origin = NULL THEN <<Half, Half>> ELSE origin

\* The rectangle b has the given width and height, ordered corners, and the
\* point at the origin ratios where the rectangle before had it.
ResizedAbout(b, before, w, h, origin) ==
  /\ RLe(b.x1, b.x2) /\ RLe(b.y1, b.y2)
  /\ width(b) = w /\ height(b) = h
  /\ getAbsolutePoint(b, OriginOf(origin))
       = getAbsolutePoint(before, OriginOf(origin))

\* C17: resizeTo(w, h, origin) leaves the point at the origin ratios of the
\* rectangle where it was and makes the rectangle exactly w wide and h high;
\* scaleBy(f, origin) does what resizeTo(width * f, height * f, origin) does.
C17_ResizeKeepsOrigin ==
  /\ hist.last = "ResizeTo" =>
       ResizedAbout(box, hist.call[1].box, hist.call[1].args[1],
                    hist.call[1].args[2], hist.call[1].args[3])
  /\ hist.last = "ScaleBy" =>
       ResizedAbout(box, hist.call[1].box,
                    RMul(width(hist.call[1].box), hist.call[1].args[1]),
                    RMul(height(hist.call[1].box), hist.call[1].args[1]),
                    hist.call[1].args[2])

\* C17 witness: resizeTo about the middle of the right side changed the
\* size of the region and left that point in its place.
C17_Witness ==
  /\ hist.last = "ResizeTo"
  /\ hist.call[1].args[3] = <<One, Half>>
  /\ width(box) # width(hist.call[1].box)
  /\ height(box) # height(hist.call[1].box)
  /\ box.x2 = hist.call[1].box.x2
  /\ box.x1 # hist.call[1].box.x1

\* moveTo(x, y) has put the first corner at (x, y) and kept the size.
MovedTo ==
  /\ box.x1 = hist.call[1].args[1] /\ box.y1 = hist.call[1].args[2]
  /\ width(box) = width(hist.call[1].box)
  /\ height(box) = height(hist.call[1].box)

\* C18 as stated: after moveTo(x, y) the first corner is at (x, y), the
\* width and the height are unchanged, and getValue('raw') reports x and y
\* as given.
C18_MoveToReportedAsGiven ==
  hist.last = "MoveTo" =>
    /\ MovedTo
    /\ getValue(<<"raw">>)[1].x = hist.call[1].args[1]
    /\ getValue(<<"raw">>)[1].y = hist.call[1].args[2]

\* C18 as amended: after moveTo(x, y) the first corner is at (x, y), the
\* width and the height are unchanged, and getValue('raw') reports x and y
\* rounded to the nearest integer.
C18_MoveToReportedRounded ==
  hist.last = "MoveTo" =>
    /\ MovedTo
    /\ getValue(<<"raw">>)[1].x = R(MathRound(hist.call[1].args[1]))
    /\ getValue(<<"raw">>)[1].y = R(MathRound(hist.call[1].args[2]))

\* C18 witness: moveTo to a point between the pixels moved the region
\* there, and getValue('raw') reports the nearest pixel.
C18_Witness ==
  /\ hist.last = "MoveTo"
  /\ hist.call[1].args = <<Half, One>>
  /\ box # hist.call[1].box
  /\ MovedTo
  /\ getValue(<<"raw">>)[1].x = One

\* v is q rounded to three decimals: a multiple of 1/1000 that is at most
\* 1/2000 away from q.
RoundedTo3(v, q) ==
  /\ v # NaN
  /\ 1000 % v[2] = 0
  /\ Abs(1000 * q[1] - (v[1] * (1000 \div v[2])) * q[2]) <= q[2] \div 2

\* C19: getValue('ratio') returns x, y, width and height divided by the
\* rendered width and height of the container, rounded to 3 decimals; for
\* the rectangle (10, 10, 60, 60) in a 100x100 container that is
\* {x: 0.1, y: 0.1, width: 0.5, height: 0.5}; getValue() with no argument
\* returns what getValue of the configured return mode returns.
C19_RatioRoundedTo3 ==
  /\ (hist.last = "GetValue" /\ hist.call[1].args = <<"ratio">>) =>
       /\ returned.what = "value" /\ returned.value # <<>>
       /\ RoundedTo3(returned.value[1].x, RDiv(box.x1, containerWidth))
       /\ RoundedTo3(returned.value[1].y, RDiv(box.y1, containerHeight))
       /\ RoundedTo3(returned.value[1].width, RDiv(width(box), containerWidth))
       /\ RoundedTo3(returned.value[1].height,
                     RDiv(height(box), containerHeight))
  /\ (hist.last = "GetValue" /\ hist.call[1].args = <<>>) =>
       returned.value = getValue(<<options.returnMode>>)
  /\ ValueOf(Box(R(10), R(10), R(60), R(60)), <<"ratio">>, R(100), R(100))
       = <<Value(<<1, 10>>, <<1, 10>>, Half, Half)>>

\* The point of the rectangle b opposite the sides the handle h moves: the
\* right side for a handle that moves the left one, the left side for one
\* that moves the right one, the middle for one that moves neither; and so
\* for top and bottom.
OppositeOf(h, b) ==
  << IF LEFT_MOVABLE(h) THEN b.x2
     ELSE IF RIGHT_MOVABLE(h) THEN b.x1
     ELSE RMul(Half, RAdd(b.x1, b.x2)),
     IF TOP_MOVABLE(h) THEN b.y2
     ELSE IF BOTTOM_MOVABLE(h) THEN b.y1
     ELSE RMul(Half, RAdd(b.y1, b.y2)) >>

\* C20: the start of a resize sets the anchor to the point opposite the
\* handle, [1 - position.x, 1 - position.y], captures the absolute
\* coordinates of that point of the live rectangle, and leaves the rectangle
\* unchanged; the start of an overlay create uses the se handle, and its
\* anchor is the position of the pointer.
C20_StartCapturesOpposite ==
  /\ hist.last = "HandleMouseDown" =>
       LET h == activeHandle[1].handle
       IN  /\ activeHandle[1].originPoint
                = << RSub(One, HANDLES[h].position[1]),
                     RSub(One, HANDLES[h].position[2]) >>
           /\ <<activeHandle[1].originX, activeHandle[1].originY>>
                = OppositeOf(h, hist.boxAtDown[1])
           /\ box = hist.boxAtDown[1]
  /\ hist.last = "OverlayMouseDown" =>
       /\ activeHandle[1].handle = SOUTHEAST_HANDLE_IDX
       /\ HANDLES[activeHandle[1].handle].direction = "se"
       /\ <<activeHandle[1].originX, activeHandle[1].originY>> = hist.mouse

\* C20 witness: a resize was started with the nw handle on a region that
\* moveTo had moved, and the anchor is the region's bottom-right corner.
C20_Witness ==
  /\ hist.last = "HandleMouseDown"
  /\ activeHandle[1].handle = 1
  /\ box # hist.initial[1].box
  /\ activeHandle[1].originPoint = <<One, One>>
  /\ activeHandle[1].originX = box.x2 /\ activeHandle[1].originY = box.y2

\* The handle h is the n or the s handle.
VerticalOnly(h) == ~MULTI_AXIS(h) /\ (TOP_MOVABLE(h) \/ BOTTOM_MOVABLE(h))

\* A step of a resize session with one of the edge handles, under an aspect
\* ratio, with no call of the public interface during the session.
EdgeRatioStep ==
  /\ hist.last = "HandleMouseMove" /\ Undisturbed
  /\ options.aspectRatio # NULL
  /\ ~MULTI_AXIS(activeHandle[1].handle)

\* The distance between the pointer, kept within the container, and the
\* anchor, along each axis.
PointerWidth ==
  RAbs(RSub(ClampMouse(hist.mouse[1], containerWidth), activeHandle[1].originX))
PointerHeight ==
  RAbs(RSub(ClampMouse(hist.mouse[2], containerHeight), activeHandle[1].originY))

\* The size the ratio mode of the handle derives from the pointer.
DerivedWidth ==
  IF VerticalOnly(activeHandle[1].handle)
  THEN RDiv(PointerHeight, options.aspectRatio) ELSE PointerWidth
DerivedHeight ==
  IF VerticalOnly(activeHandle[1].handle)
  THEN PointerHeight ELSE RMul(PointerWidth, options.aspectRatio)

HasDerivedSize == width(box) = DerivedWidth /\ height(box) = DerivedHeight

\* The derived size is within the configured sizes and the container has
\* room for it about the anchor.
DerivedSizeAllowed ==
  /\ WithinSizes(Box(Zero, Zero, DerivedWidth, DerivedHeight), options)
  /\ RLe(DerivedWidth,
         MaxExtent(activeHandle[1].originX, hist.origin[1][1], containerWidth))
  /\ RLe(DerivedHeight,
         MaxExtent(activeHandle[1].originY, hist.origin[1][2], containerHeight))

\* C21 as stated: under an aspect ratio, a step of a vertical-only handle
\* leaves the height at the pointer's distance from the anchor and the width
\* at height / ratio, a step of a horizontal-only handle leaves the width at
\* the pointer's distance and the height at width * ratio, and the anchor,
\* the midpoint of the opposite side, stays where it was.
C21_EdgeFollowsPointer == EdgeRatioStep => (HasDerivedSize /\ Anchored)

\* C21 as amended: under an aspect ratio, a step of an edge handle keeps the
\* anchor where it was; the rectangle has the size derived from the pointer
\* (height from the pointer and width = height / ratio for n and s, width
\* from the pointer and height = width * ratio for e and w) whenever that
\* size is within the minimum and maximum sizes and the container has room
\* for it about the anchor.
C21_EdgeFollowsPointerWhereAllowed ==
  EdgeRatioStep => (Anchored /\ (DerivedSizeAllowed => HasDerivedSize))

\* C21 witness: under the ratio 2 the s handle was moved, the height is the
\* pointer's distance from the top side, the width is half of it, and the
\* rectangle is not the one the session started on.
C21_Witness ==
  /\ EdgeRatioStep
  /\ activeHandle[1].handle = 6
  /\ options.aspectRatio = R(2)
  /\ DerivedSizeAllowed
  /\ RLt(Zero, height(box))
  /\ height(box) = PointerHeight
  /\ width(box) = RDiv(height(box), R(2))
  /\ box # hist.boxAtDown[1]
  /\ Anchored

\* A step of a resize session with one of the edge handles, with no aspect
\* ratio: the step from the unprimed to the primed state.
EdgeFreeStep ==
  /\ hist'.last = "HandleMouseMove"
  /\ options.aspectRatio = NULL
  /\ ~MULTI_AXIS(activeHandle[1].handle)

\* The size the step gives the rectangle before any constraint: along the
\* axis of the handle the pointer's distance from the anchor, across it the
\* size the rectangle has.
SteppedSize ==
  IF VerticalOnly(activeHandle[1].handle)
  THEN Box(Zero, Zero, width(box), PointerHeight')
  ELSE Box(Zero, Zero, PointerWidth', height(box))

\* Across the axis of the handle both coordinates are kept; along it the two
\* coordinates are the anchor and the pointer, in order.
OnlyHandleAxisChanged ==
  IF VerticalOnly(activeHandle[1].handle)
  THEN /\ box'.x1 = box.x1 /\ box'.x2 = box.x2
       /\ {box'.y1, box'.y2}
            = {activeHandle[1].originY,
               ClampMouse(hist'.mouse[2], containerHeight)}
       /\ RLe(box'.y1, box'.y2)
  ELSE /\ box'.y1 = box.y1 /\ box'.y2 = box.y2
       /\ {box'.x1, box'.x2}
            = {activeHandle[1].originX,
               ClampMouse(hist'.mouse[1], containerWidth)}
       /\ RLe(box'.x1, box'.x2)

\* C22 as stated: with no aspect ratio and no size bound violated, a move
\* step of an edge handle changes only the edge the handle moves (past the
\* anchor, the two coordinates of that axis); both coordinates of the other
\* axis keep their values.
C22_EdgeStepKeepsOtherAxis ==
  [][(EdgeFreeStep /\ WithinSizes(SteppedSize, options))
     => OnlyHandleAxisChanged]_vars

\* C22 as amended: the same, for a step that starts on a rectangle lying
\* inside the container.
C22_EdgeStepInsideKeepsOtherAxis ==
  [][(EdgeFreeStep /\ WithinSizes(SteppedSize, options) /\ Contained(box))
     => OnlyHandleAxisChanged]_vars

\* C22 witness: with no aspect ratio, the second step of the n handle
\* dragged it below the anchor; the left and right sides are where they were
\* at the start, the top side is on the anchor and the bottom side on the
\* pointer.
C22_Witness ==
  /\ hist.last = "HandleMouseMove" /\ hist.moves = 2
  /\ options.aspectRatio = NULL
  /\ activeHandle[1].handle = 2
  /\ Contained(hist.boxAtDown[1])
  /\ box.x1 = hist.boxAtDown[1].x1 /\ box.x2 = hist.boxAtDown[1].x2
  /\ RLt(box.x1, box.x2)
  /\ box.y1 = activeHandle[1].originY
  /\ box.y2 = hist.mouse[2]
  /\ RLt(box.y1, box.y2)

\* The rectangle has ordered corners and its centre at the centre of the
\* container.
CentredInContainer(b) ==
  /\ RLe(b.x1, b.x2) /\ RLe(b.y1, b.y2)
  /\ RAdd(b.x1, b.x2) = containerWidth
  /\ RAdd(b.y1, b.y2) = containerHeight

TransformCall == hist'.last \in {"MoveTo", "ResizeTo", "ScaleBy", "Reset"}

\* The rectangle after the call is the requested transform of the rectangle
\* before it, with nothing constrained: moved to (x, y) with its size kept;
\* of the requested size, or scaled by the factor, about the origin; for
\* reset, the initial rectangle of the options.
TransformedAsRequested ==
  LET args == hist'.call[1].args
  IN  CASE hist'.last = "MoveTo" ->
             /\ box'.x1 = args[1] /\ box'.y1 = args[2]
             /\ width(box') = width(box) /\ height(box') = height(box)
        [] hist'.last = "ResizeTo" ->
             ResizedAbout(box', box, args[1], args[2], args[3])
        [] hist'.last = "ScaleBy" ->
             ResizedAbout(box', box, RMul(width(box), args[1]),
                          RMul(height(box), args[1]), args[2])
        [] hist'.last = "Reset" -> box' = initializeBox(options)

\* The call invoked onSelectEnd once, with what getValue() returns after
\* the call, and no other callback; with no onSelectEnd configured it
\* invoked nothing.
NotifiedOnce ==
  IF options.onSelectEnd
  THEN /\ emitted' = Append(emitted, "onSelectEnd")
       /\ delivered' = << [kind |-> "onSelectEnd",
                           value |-> ValueOf(box', <<>>, elementWidth,
                                             elementHeight)] >>
  ELSE emitted' = emitted /\ delivered' = delivered

\* C24: each call of moveTo, resizeTo, scaleBy or reset requests one render,
\* invokes onSelectEnd exactly once (when configured) with the value of the
\* rectangle after the operation, invokes no onSelectStart or onSelectMove,
\* constrains nothing of the requested transform, and returns the instance.
C24_CallsNotifyOnce ==
  [][TransformCall =>
       /\ pending' = Append(pending, Snapshot(box'))
       /\ NotifiedOnce
       /\ TransformedAsRequested
       /\ returned' = This
       /\ options' = options]_vars

\* C24 witness: scaleBy(2) has made the region larger than the container;
\* one render of the scaled region is pending, onSelectEnd was the only
\* callback and was handed the value of the scaled region, and the instance
\* was returned.
C24_Witness ==
  /\ hist.last = "ScaleBy" /\ hist.call[1].args[1] = R(2)
  /\ ~Contained(box)
  /\ width(box) = RMul(R(2), width(hist.call[1].box))
  /\ pending # <<>> /\ pending[Len(pending)] = Snapshot(box)
  /\ emitted = <<"onSelectEnd">>
  /\ delivered = << [kind |-> "onSelectEnd", value |-> getValue(<<>>)] >>
  /\ delivered[1].value # <<>>
  /\ returned = This

\* C25: whenever no session is active and every scheduled animation frame
\* has run, the position and size painted last are the rounded live
\* rectangle; so also after an overlay gesture whose rectangle was exactly
\* 1x1 at pointer-up after a drag, where the saved rectangle is restored.
C25_PaintedTracksBox ==
  (listeners = "none" /\ pending = <<>>) => painted = <<Snapshot(box)>>

\* The application calls none of moveTo, resizeTo, scaleBy and setOptions in
\* this behaviour: the rectangle changes by pointer gestures (and reset())
\* only.
GesturesOnly == env.points = {} /\ env.opts = {}

Ordered(b) == RLe(b.x1, b.x2) /\ RLe(b.y1, b.y2)

\* C26: in every state reached from initialize through pointer gestures
\* (handle resize with any flips, region drag, overlay create) the live
\* rectangle has x1 <= x2 and y1 <= y2, and the x and y that getValue
\* reports are those of its top-left corner.
C26_CornersOrdered ==
  GesturesOnly =>
    /\ Ordered(box)
    /\ getValue(<<"raw">>)[1].x = R(MathRound(RMin(box.x1, box.x2)))
    /\ getValue(<<"raw">>)[1].y = R(MathRound(RMin(box.y1, box.y2)))

\* C26 witness: a resize step with the nw handle went past the anchor on
\* both axes: the rectangle's first corner is the anchor, its second corner
\* lies right of and below it, and getValue reports the anchor's x.
C26_Witness ==
  /\ GesturesOnly
  /\ AfterResizeStep
  /\ hist.origin[1][1] # activeHandle[1].originPoint[1]
  /\ hist.origin[1][2] # activeHandle[1].originPoint[2]
  /\ activeHandle[1].handle = 1
  /\ box.x1 = activeHandle[1].originX /\ box.y1 = activeHandle[1].originY
  /\ RLt(box.x1, box.x2) /\ RLt(box.y1, box.y2)
  /\ getValue(<<"raw">>)[1].x = R(MathRound(box.x1))

\* The effective value of an option: the width and height of a size, the
\* value itself of any other option.
Effective(k, v) ==
  IF k \in {"minSize", "maxSize", "startSize"}
  THEN <<v.width, v.height>> ELSE v

\* The options a setOptions call should leave: the options before the call,
\* with the keys the call sets taken from the options after it.
Retained(before, after, asked) ==
  [k \in DOMAIN before |-> IF k \in DOMAIN asked THEN after[k] ELSE before[k]]

\* C27: after a setOptions call that succeeds, every option the call does
\* not set (minSize, maxSize, startSize in pixels, returnMode, callbacks,
\* aspectRatio) has the effective value it had before, and the rectangle is
\* the one initializeBox builds from the retained values.
C27_SetOptionsKeepsOthers ==
  (hist.last = "SetOptions" /\ returned.what = "undefined") =>
    /\ \A k \in DOMAIN options \ DOMAIN hist.call[1].args :
         Effective(k, options[k]) = Effective(k, hist.call[1].options[k])
    /\ box = initializeBox(Retained(hist.call[1].options, options,
                                    hist.call[1].args))

\* The rectangle a move of the session's handle to the last pointer makes
\* of the rectangle b.
SessionStep(b) ==
  LET ah == activeHandle[1]
      mouseX == ClampMouse(hist.mouse[1], containerWidth)
      mouseY == ClampMouse(hist.mouse[2], containerHeight)
  IN  ConstrainBox(FlipBox(MovedSides(ah.handle, mouseX, mouseY,
                                      ah.originX, ah.originY, b),
                           isFlippedX(ah.handle, mouseX, ah.originX),
                           isFlippedY(ah.handle, mouseY, ah.originY)),
                   hist.origin[1], ah.handle, mouseY, options)

\* The rectangle the session started on: the one the handle was pressed on,
\* or the 1x1 rectangle an overlay create made at the pointer.
SessionStart ==
  IF listeners = "overlay"
  THEN Box(activeHandle[1].originX, activeHandle[1].originY,
           RAdd(activeHandle[1].originX, One),
           RAdd(activeHandle[1].originY, One))
  ELSE hist.boxAtDown[1]

\* A move step of a resize session that no reset and no call of the
\* public interface has interrupted has just been taken.
AfterSessionStep ==
  /\ hist.last \in {"HandleMouseMove", "OverlayMouseMove"}
  /\ ~hist.resetInGesture /\ ~hist.callInGesture

\* C28: within one resize session, the rectangle after a move to
\* a pointer is the one a first move to that pointer makes of the rectangle
\* the session started on, whichever pointers the moves before it visited;
\* so a move to the same pointer twice in a row gives what one move gives.
C28_StepOfPointerOnly ==
  AfterSessionStep => box = SessionStep(SessionStart)

=============================================================================
